---- MODULE Spec2Model ----
(***************************************************************************)
(* A model of src/services/websocket.rs: WebSocketService::connect, the    *)
(* four JavaScript event handlers it installs on the socket, and the       *)
(* WebSocketHandle operations send and cancel.                             *)
(*                                                                         *)
(* The Rust side owns the handles (WebSocketHandle(Option<Value>)) and the *)
(* dispatcher queue behind AppSender; the JavaScript side owns the sockets *)
(* and the two callbacks handed over by connect.  The transport (the       *)
(* browser's WebSocket) is the environment: it fires open, message, error  *)
(* and close events.                                                       *)
(*                                                                         *)
(* A panic ends the call it happens in and changes nothing else; it is     *)
(* written into the history of calls or events, and the program goes on,   *)
(* so every state a caller that catches the failure could see is covered.  *)
(* MaxOps is one budget for all calls and for the message and error events *)
(* the transport fires; open and close events are free.                    *)
(***************************************************************************)
EXTENDS Integers, Sequences, FiniteSets, TLC

\* ------------------------------------------------------------------ bounds
MaxOps == 4         \* connect, send, cancel and drop calls, message and error events
MaxCode == 3        \* status codes 0..MaxCode handed to notify_callback

Urls == {"wss://example/socket"}
Frames == {"hello", "ping"}      \* event.data of inbound frames

\* Option<T>: None and Some(x)
None == <<>>
Some(x) == <<x>>

\* Values of a type IN: Into<Storable> handed to send
Inputs == {[kind |-> "Text", text |-> "ping"], [kind |-> "Text", text |-> "pong"],
           [kind |-> "Nothing", text |-> ""]}

VARIABLES
    socket,     \* JS: socket[c], the WebSocket object and its two callbacks
    handle,     \* Rust: handle[h] = Some(c) or None, the field of WebSocketHandle
    dropped,    \* Rust: the handles whose value the application has let go
    queue,      \* the dispatcher behind AppSender: messages in arrival order
    events,     \* history: events[c], the transport events fired on socket c
    calls,      \* history: calls[h], the send and cancel calls made on handle h
    budget      \* what is left of MaxOps

vars == <<socket, handle, dropped, queue, events, calls, budget>>

\* ------------------------------------------------------------------ types
\* enum WebSocketStatus
Opened == "Opened"
Closed == "Closed"

\* Result::Ok
Ok(s) == [ok |-> s]

\* OUT::from(Restorable): the application's OUT type takes the Result as it is
OutFrom(data) == [restored |-> data]

\* data.into(): Storable is Option<String>
IntoStorable(data) == IF data.kind = "Nothing" THEN None ELSE Some(data.text)

\* the two functions the application gives to connect
converter(c, out) == [conn |-> c, kind |-> "Data", body |-> out]
notification(c, st) == [conn |-> c, kind |-> "Status", body |-> [status |-> st]]

\* AppSender::send
tx_send(q, msg) == Append(q, msg)

\* ------------------------------------------------- the transport's primitives
\* new WebSocket(url), with the two callbacks connect binds beside it
new_WebSocket(url) ==
    [url |-> url, readyState |-> "CONNECTING", callback |-> TRUE,
     notify_callback |-> TRUE, sent |-> <<>>, closeCalls |-> 0, log |-> <<>>]

\* socket.send(body): the send primitive takes the payload
socket_send(s, body) == [s EXCEPT !.sent = Append(@, body)]

\* socket.close(): the close primitive; the close event follows later
socket_close(s) ==
    [s EXCEPT !.closeCalls = @ + 1,
              !.readyState = IF @ \in {"CONNECTING", "OPEN"} THEN "CLOSING" ELSE @]

\* ------------------------------------------------------- the two callbacks
\* a message callback that sends its message twice
callback_twice(c, s, q) ==
    LET msg == converter(c, OutFrom(Ok(s)))
    IN  tx_send(tx_send(q, msg), msg)

\* a message callback that puts its message at the head of the queue
callback_front(c, s, q) == <<converter(c, OutFrom(Ok(s)))>> \o q

\* let callback = move |s: String| { ... tx.send(msg) }
callback(c, s, q) ==
    LET data == Ok(s)
        out == OutFrom(data)
        msg == converter(c, out)
    IN  tx_send(q, msg)

\* a status callback whose match ends in a catch-all arm for Closed
notify_callback_default(c, code, q) ==
    IF code = 1 THEN [panic |-> "", queue |-> tx_send(q, notification(c, Opened))]
    ELSE [panic |-> "", queue |-> tx_send(q, notification(c, Closed))]

\* let notify_callback = move |code: u32| { match code ... tx.send(msg) }
notify_callback(c, code, q) ==
    IF code = 1 THEN [panic |-> "", queue |-> tx_send(q, notification(c, Opened))]
    ELSE IF code = 0 THEN [panic |-> "", queue |-> tx_send(q, notification(c, Closed))]
    ELSE [panic |-> "unknown code of websocket notification", queue |-> q]

\* ------------------------------------------------ the JS side of a handler
\* what a running handler works on: its socket (with the two callbacks), the
\* dispatcher queue, and the failure that ended it ("" while it runs)
Js(s, q) == [s |-> s, q |-> q, failure |-> ""]

ReleasedCalled == "released callback called"

\* callback(event.data)
call_callback(c, data, js) ==
    IF js.failure # "" THEN js
    ELSE IF ~ js.s.callback THEN [js EXCEPT !.failure = ReleasedCalled]
    ELSE [js EXCEPT !.q = callback(c, data, js.q)]

\* notify_callback(code)
call_notify_callback(c, code, js) ==
    IF js.failure # "" THEN js
    ELSE IF ~ js.s.notify_callback THEN [js EXCEPT !.failure = ReleasedCalled]
    ELSE LET r == notify_callback(c, code, js.q)
         IN  [js EXCEPT !.q = r.queue, !.failure = r.panic]

\* callback.drop()
drop_callback(js) ==
    IF js.failure # "" THEN js
    ELSE IF ~ js.s.callback THEN [js EXCEPT !.failure = ReleasedCalled]
    ELSE [js EXCEPT !.s.callback = FALSE]

\* notify_callback.drop()
drop_notify_callback(js) ==
    IF js.failure # "" THEN js
    ELSE IF ~ js.s.notify_callback THEN [js EXCEPT !.failure = ReleasedCalled]
    ELSE [js EXCEPT !.s.notify_callback = FALSE]

\* history: the close handler reaches a step, with the callbacks as it finds them
Step(name, js) ==
    [step |-> name, callback |-> js.s.callback, notify_callback |-> js.s.notify_callback]
log_step(name, js) ==
    IF js.failure # "" THEN js ELSE [js EXCEPT !.s.log = Append(@, Step(name, js))]

\* a close handler that releases both callbacks first and notifies last
onclose_body_drop_first(c, js) ==
    LET j1 == drop_callback(log_step("callback.drop", js))
        j2 == drop_notify_callback(log_step("notify_callback.drop", j1))
        j3 == call_notify_callback(c, 0, log_step("notify_callback(0)", j2))
    IN  j3

\* a close handler that notifies and releases neither callback
onclose_body_keep(c, js) ==
    call_notify_callback(c, 0, log_step("notify_callback(0)", js))

\* function(event) { callback.drop(); notify_callback(0); notify_callback.drop(); }
onclose_body(c, js) ==
    LET j1 == drop_callback(log_step("callback.drop", js))
        j2 == call_notify_callback(c, 0, log_step("notify_callback(0)", j1))
        j3 == drop_notify_callback(log_step("notify_callback.drop", j2))
    IN  j3

\* function(event) { notify_callback(1); }
onopen_body(c, js) == call_notify_callback(c, 1, js)

\* function(event) { callback(event.data); }
onmessage_body(c, data, js) == call_callback(c, data, js)

\* an error handler that notifies Closed
onerror_body_notify(c, js) == call_notify_callback(c, 0, js)

\* function(event) { }
onerror_body(c, js) == js

Event(ev, data, code, panic) == [ev |-> ev, data |-> data, code |-> code, panic |-> panic]
Call(op, data, live, closed, panic) ==
    [op |-> op, data |-> data, live |-> live, closed |-> closed, panic |-> panic]
NoData == [kind |-> "-", text |-> ""]

Conns == DOMAIN socket
Handles == DOMAIN handle

\* ------------------------------------------------------------------ state
Init ==
    /\ socket = <<>>
    /\ handle = <<>>
    /\ dropped = {}
    /\ queue = <<>>
    /\ events = <<>>
    /\ calls = <<>>
    /\ budget = MaxOps

\* a connect that reports the connection as opened before it returns
connect_eager(url) ==
    /\ budget > 0
    /\ budget' = budget - 1
    /\ socket' = Append(socket, new_WebSocket(url))
    /\ handle' = Append(handle, Some(Len(socket) + 1))
    /\ events' = Append(events, <<>>)
    /\ calls' = Append(calls, <<>>)
    /\ queue' = tx_send(queue, notification(Len(socket) + 1, Opened))
    /\ UNCHANGED <<dropped>>

\* WebSocketService::connect
connect(url) ==
    /\ budget > 0
    /\ budget' = budget - 1
    /\ socket' = Append(socket, new_WebSocket(url))
    /\ handle' = Append(handle, Some(Len(socket) + 1))
    /\ events' = Append(events, <<>>)
    /\ calls' = Append(calls, <<>>)
    /\ UNCHANGED <<dropped, queue>>

\* socket.onopen = function(event) { notify_callback(1); }
onopen(c) ==
    /\ socket[c].readyState = "CONNECTING"
    /\ LET js == onopen_body(c, Js(socket[c], queue)) IN
       /\ queue' = js.q
       /\ socket' = [socket EXCEPT ![c] = [js.s EXCEPT !.readyState = "OPEN"]]
       /\ events' = [events EXCEPT ![c] = Append(@, Event("open", "", Some(1), js.failure))]
    /\ UNCHANGED <<handle, dropped, calls, budget>>

\* socket.onmessage = function(event) { callback(event.data); }
onmessage(c, data) ==
    /\ socket[c].readyState \in {"OPEN", "CLOSING"}
    /\ budget > 0
    /\ budget' = budget - 1
    /\ LET js == onmessage_body(c, data, Js(socket[c], queue)) IN
       /\ queue' = js.q
       /\ socket' = [socket EXCEPT ![c] = js.s]
       /\ events' = [events EXCEPT ![c] = Append(@, Event("message", data, None, js.failure))]
    /\ UNCHANGED <<handle, dropped, calls>>

\* a close handler that also empties the handle of its connection
onclose_release(c) ==
    /\ socket[c].readyState # "CLOSED"
    /\ LET r == notify_callback(c, 0, queue) IN
       /\ queue' = r.queue
       /\ events' = [events EXCEPT ![c] = Append(@, Event("close", "", Some(0), r.panic))]
    /\ socket' = [socket EXCEPT ![c].readyState = "CLOSED",
                                ![c].callback = FALSE,
                                ![c].notify_callback = FALSE]
    /\ handle' = [handle EXCEPT ![c] = None]
    /\ UNCHANGED <<dropped, calls, budget>>

\* socket.onclose = function(event) { callback.drop(); notify_callback(0);
\*                                    notify_callback.drop(); }
onclose(c) ==
    /\ socket[c].readyState # "CLOSED"
    /\ LET js == onclose_body(c, Js(socket[c], queue)) IN
       /\ queue' = js.q
       /\ socket' = [socket EXCEPT ![c] = [js.s EXCEPT !.readyState = "CLOSED"]]
       /\ events' = [events EXCEPT ![c] = Append(@, Event("close", "", Some(0), js.failure))]
    /\ UNCHANGED <<handle, dropped, calls, budget>>

\* an error handler that runs the close path
onerror_as_close(c) ==
    /\ socket[c].readyState # "CLOSED"
    /\ budget > 0
    /\ budget' = budget - 1
    /\ LET r == notify_callback(c, 0, queue) IN
       /\ queue' = r.queue
       /\ events' = [events EXCEPT ![c] = Append(@, Event("error", "", Some(0), r.panic))]
    /\ socket' = [socket EXCEPT ![c].callback = FALSE, ![c].notify_callback = FALSE]
    /\ UNCHANGED <<handle, dropped, calls>>

\* socket.onerror = function(event) { }
onerror(c) ==
    /\ socket[c].readyState # "CLOSED"
    /\ budget > 0
    /\ budget' = budget - 1
    /\ LET js == onerror_body(c, Js(socket[c], queue)) IN
       /\ queue' = js.q
       /\ socket' = [socket EXCEPT ![c] = js.s]
       /\ events' = [events EXCEPT ![c] = Append(@, Event("error", "", None, js.failure))]
    /\ UNCHANGED <<handle, dropped, calls>>

\* a send that hands the payload to the transport twice
send_twice(h, data) ==
    /\ h \notin dropped
    /\ budget > 0
    /\ budget' = budget - 1
    /\ IF handle[h] # None
       THEN LET c == handle[h][1]
                body == IntoStorable(data)
            IN  /\ socket' = IF body # None
                             THEN [socket EXCEPT ![c] = socket_send(socket_send(@, body[1]), body[1])]
                             ELSE socket
                /\ calls' = [calls EXCEPT ![h] = Append(@,
                                Call("send", data, TRUE, socket[c].readyState = "CLOSED", ""))]
       ELSE /\ socket' = socket
            /\ calls' = [calls EXCEPT ![h] = Append(@, Call("send", data, FALSE, FALSE,
                            "can't send data to the closed websocket connection"))]
    /\ UNCHANGED <<handle, dropped, queue, events>>

\* a send that converts first and returns when there is no payload, whatever
\* the state of the handle
send_convert_first(h, data) ==
    /\ h \notin dropped
    /\ budget > 0
    /\ budget' = budget - 1
    /\ LET body == IntoStorable(data) IN
       IF body = None
       THEN /\ socket' = socket
            /\ calls' = [calls EXCEPT ![h] = Append(@,
                            Call("send", data, handle[h] # None, FALSE, ""))]
       ELSE IF handle[h] # None
       THEN LET c == handle[h][1] IN
            /\ socket' = [socket EXCEPT ![c] = socket_send(@, body[1])]
            /\ calls' = [calls EXCEPT ![h] = Append(@,
                            Call("send", data, TRUE, socket[c].readyState = "CLOSED", ""))]
       ELSE /\ socket' = socket
            /\ calls' = [calls EXCEPT ![h] = Append(@, Call("send", data, FALSE, FALSE,
                            "can't send data to the closed websocket connection"))]
    /\ UNCHANGED <<handle, dropped, queue, events>>

\* a send that also fails once the close event of the connection was handled
send_checks_closed(h, data) ==
    /\ h \notin dropped
    /\ budget > 0
    /\ budget' = budget - 1
    /\ IF handle[h] # None /\ socket[handle[h][1]].readyState # "CLOSED"
       THEN LET c == handle[h][1]
                body == IntoStorable(data)
            IN  /\ socket' = IF body # None
                             THEN [socket EXCEPT ![c] = socket_send(@, body[1])]
                             ELSE socket
                /\ calls' = [calls EXCEPT ![h] = Append(@, Call("send", data, TRUE, FALSE, ""))]
       ELSE /\ socket' = socket
            /\ calls' = [calls EXCEPT ![h] = Append(@, Call("send", data, FALSE, FALSE,
                            "can't send data to the closed websocket connection"))]
    /\ UNCHANGED <<handle, dropped, queue, events>>

\* a send that transmits an empty frame when the input converts to no payload
send_empty_frame(h, data) ==
    /\ h \notin dropped
    /\ budget > 0
    /\ budget' = budget - 1
    /\ IF handle[h] # None
       THEN LET c == handle[h][1]
                body == IntoStorable(data)
            IN  /\ socket' = [socket EXCEPT ![c] =
                                 socket_send(@, IF body # None THEN body[1] ELSE "")]
                /\ calls' = [calls EXCEPT ![h] = Append(@,
                                Call("send", data, TRUE, socket[c].readyState = "CLOSED", ""))]
       ELSE /\ socket' = socket
            /\ calls' = [calls EXCEPT ![h] = Append(@, Call("send", data, FALSE, FALSE,
                            "can't send data to the closed websocket connection"))]
    /\ UNCHANGED <<handle, dropped, queue, events>>

\* WebSocketHandle::send
send(h, data) ==
    /\ h \notin dropped
    /\ budget > 0
    /\ budget' = budget - 1
    /\ IF handle[h] # None
       THEN LET c == handle[h][1]
                body == IntoStorable(data)
            IN  /\ socket' = IF body # None
                             THEN [socket EXCEPT ![c] = socket_send(@, body[1])]
                             ELSE socket
                /\ calls' = [calls EXCEPT ![h] = Append(@, Call("send", data, TRUE, socket[c].readyState = "CLOSED", ""))]
       ELSE /\ socket' = socket
            /\ calls' = [calls EXCEPT ![h] = Append(@, Call("send", data, FALSE, FALSE,
                            "can't send data to the closed websocket connection"))]
    /\ UNCHANGED <<handle, dropped, queue, events>>

\* a cancel that returns quietly when the handle is already Released
cancel_silent(h) ==
    /\ h \notin dropped
    /\ budget > 0
    /\ budget' = budget - 1
    /\ IF handle[h] # None
       THEN LET c == handle[h][1] IN
            /\ handle' = [handle EXCEPT ![h] = None]
            /\ socket' = [socket EXCEPT ![c] = socket_close(@)]
            /\ calls' = [calls EXCEPT ![h] = Append(@,
                            Call("cancel", NoData, TRUE, socket[c].readyState = "CLOSED", ""))]
       ELSE /\ handle' = handle
            /\ socket' = socket
            /\ calls' = [calls EXCEPT ![h] = Append(@, Call("cancel", NoData, FALSE, FALSE, ""))]
    /\ UNCHANGED <<dropped, queue, events>>

\* a cancel that takes the reference and never tells the transport to close
cancel_forget(h) ==
    /\ h \notin dropped
    /\ budget > 0
    /\ budget' = budget - 1
    /\ IF handle[h] # None
       THEN LET c == handle[h][1] IN
            /\ handle' = [handle EXCEPT ![h] = None]
            /\ socket' = socket
            /\ calls' = [calls EXCEPT ![h] = Append(@,
                            Call("cancel", NoData, TRUE, socket[c].readyState = "CLOSED", ""))]
       ELSE /\ handle' = handle
            /\ socket' = socket
            /\ calls' = [calls EXCEPT ![h] = Append(@, Call("cancel", NoData, FALSE, FALSE,
                            "tried to close websocket twice"))]
    /\ UNCHANGED <<dropped, queue, events>>

\* a cancel that reports Closed itself, at the time of the call
cancel_notifies(h) ==
    /\ h \notin dropped
    /\ budget > 0
    /\ budget' = budget - 1
    /\ IF handle[h] # None
       THEN LET c == handle[h][1] IN
            /\ handle' = [handle EXCEPT ![h] = None]
            /\ socket' = [socket EXCEPT ![c] = socket_close(@)]
            /\ queue' = tx_send(queue, notification(c, Closed))
            /\ calls' = [calls EXCEPT ![h] = Append(@,
                            Call("cancel", NoData, TRUE, socket[c].readyState = "CLOSED", ""))]
       ELSE /\ handle' = handle
            /\ socket' = socket
            /\ queue' = queue
            /\ calls' = [calls EXCEPT ![h] = Append(@, Call("cancel", NoData, FALSE, FALSE,
                            "tried to close websocket twice"))]
    /\ UNCHANGED <<dropped, events>>

\* a cancel that closes every socket of the service
cancel_all(h) ==
    /\ h \notin dropped
    /\ budget > 0
    /\ budget' = budget - 1
    /\ IF handle[h] # None
       THEN LET c == handle[h][1] IN
            /\ handle' = [handle EXCEPT ![h] = None]
            /\ socket' = [d \in DOMAIN socket |-> socket_close(socket[d])]
            /\ calls' = [calls EXCEPT ![h] = Append(@,
                            Call("cancel", NoData, TRUE, socket[c].readyState = "CLOSED", ""))]
       ELSE /\ handle' = handle
            /\ socket' = socket
            /\ calls' = [calls EXCEPT ![h] = Append(@, Call("cancel", NoData, FALSE, FALSE,
                            "tried to close websocket twice"))]
    /\ UNCHANGED <<dropped, queue, events>>

\* impl Task for WebSocketHandle: cancel
cancel(h) ==
    /\ h \notin dropped
    /\ budget > 0
    /\ budget' = budget - 1
    /\ IF handle[h] # None
       THEN LET c == handle[h][1] IN
            /\ handle' = [handle EXCEPT ![h] = None]
            /\ socket' = [socket EXCEPT ![c] = socket_close(@)]
            /\ calls' = [calls EXCEPT ![h] = Append(@, Call("cancel", NoData, TRUE, socket[c].readyState = "CLOSED", ""))]
       ELSE /\ handle' = handle
            /\ socket' = socket
            /\ calls' = [calls EXCEPT ![h] = Append(@, Call("cancel", NoData, FALSE, FALSE,
                            "tried to close websocket twice"))]
    /\ UNCHANGED <<dropped, queue, events>>

\* a Drop impl that closes the connection of a Live handle
drop_closes(h) ==
    /\ h \notin dropped
    /\ budget > 0
    /\ budget' = budget - 1
    /\ dropped' = dropped \cup {h}
    /\ socket' = IF handle[h] # None
                 THEN [socket EXCEPT ![handle[h][1]] = socket_close(@)]
                 ELSE socket
    /\ UNCHANGED <<handle, queue, events, calls>>

\* the application lets a handle go out of scope: WebSocketHandle has no Drop
drop(h) ==
    /\ h \notin dropped
    /\ budget > 0
    /\ budget' = budget - 1
    /\ dropped' = dropped \cup {h}
    /\ UNCHANGED <<socket, handle, queue, events, calls>>

\* the status callback called with any code (the JS glue calls it with 1 and 0 only)
status(c, code) ==
    /\ socket[c].notify_callback
    /\ budget > 0
    /\ budget' = budget - 1
    /\ LET r == notify_callback(c, code, queue) IN
       /\ queue' = r.queue
       /\ events' = [events EXCEPT ![c] = Append(@, Event("status", "", Some(code), r.panic))]
    /\ UNCHANGED <<socket, handle, dropped, calls>>

Next ==
    \/ \E url \in Urls : connect(url)
    \/ \E c \in Conns : onopen(c)
    \/ \E c \in Conns, data \in Frames : onmessage(c, data)
    \/ \E c \in Conns : onclose(c)
    \/ \E c \in Conns : onerror(c)
    \/ \E h \in Handles, data \in Inputs : send(h, data)
    \/ \E h \in Handles : cancel(h)
    \/ \E h \in Handles : drop(h)

Spec == Init /\ [][Next]_vars

\* the callbacks alone, with the status callback open to every code
NextCodes ==
    \/ \E url \in Urls : connect(url)
    \/ \E c \in Conns : onopen(c)
    \/ \E c \in Conns, data \in Frames : onmessage(c, data)
    \/ \E c \in Conns : onclose(c)
    \/ \E c \in Conns, code \in 0..MaxCode : status(c, code)

SpecCodes == Init /\ [][NextCodes]_vars

\* a transport that breaks its ordering guarantee: events fired on a socket
\* whose close event has been handled; the handlers are still installed
late_onopen(c) ==
    /\ socket[c].readyState = "CLOSED"
    /\ budget > 0
    /\ budget' = budget - 1
    /\ LET js == onopen_body(c, Js(socket[c], queue)) IN
       /\ queue' = js.q
       /\ socket' = [socket EXCEPT ![c] = js.s]
       /\ events' = [events EXCEPT ![c] = Append(@, Event("open", "", Some(1), js.failure))]
    /\ UNCHANGED <<handle, dropped, calls>>

late_onmessage(c, data) ==
    /\ socket[c].readyState = "CLOSED"
    /\ budget > 0
    /\ budget' = budget - 1
    /\ LET js == onmessage_body(c, data, Js(socket[c], queue)) IN
       /\ queue' = js.q
       /\ socket' = [socket EXCEPT ![c] = js.s]
       /\ events' = [events EXCEPT ![c] = Append(@, Event("message", data, None, js.failure))]
    /\ UNCHANGED <<handle, dropped, calls>>

late_onclose(c) ==
    /\ socket[c].readyState = "CLOSED"
    /\ budget > 0
    /\ budget' = budget - 1
    /\ LET js == onclose_body(c, Js(socket[c], queue)) IN
       /\ queue' = js.q
       /\ socket' = [socket EXCEPT ![c] = js.s]
       /\ events' = [events EXCEPT ![c] = Append(@, Event("close", "", Some(0), js.failure))]
    /\ UNCHANGED <<handle, dropped, calls>>

late_onerror(c) ==
    /\ socket[c].readyState = "CLOSED"
    /\ budget > 0
    /\ budget' = budget - 1
    /\ LET js == onerror_body(c, Js(socket[c], queue)) IN
       /\ queue' = js.q
       /\ socket' = [socket EXCEPT ![c] = js.s]
       /\ events' = [events EXCEPT ![c] = Append(@, Event("error", "", None, js.failure))]
    /\ UNCHANGED <<handle, dropped, calls>>

NextLate ==
    \/ Next
    \/ \E c \in Conns : late_onopen(c)
    \/ \E c \in Conns, data \in Frames : late_onmessage(c, data)
    \/ \E c \in Conns : late_onclose(c)
    \/ \E c \in Conns : late_onerror(c)

SpecLate == Init /\ [][NextLate]_vars

\* the transport fires the close event after a close instruction
CloseAfterInstruction(c) ==
    /\ c \in Conns
    /\ socket[c].readyState = "CLOSING"
    /\ onclose(c)

FairSpec == Spec /\ \A c \in 1..MaxOps : WF_vars(CloseAfterInstruction(c))

\* ---------------------------------------------------------------- readings
\* the messages of connection c on the dispatcher, in queue order
QueueOf(c) == SelectSeq(queue, LAMBDA m : m.conn = c)

\* decoder(m): what the message callback makes of the raw payload m
decoder(c, m) == converter(c, OutFrom(Ok(m)))
notifier(c, st) == notification(c, st)

ClosedCount(c) == Len(SelectSeq(queue, LAMBDA m : m = notifier(c, Closed)))
OpenedCount(c) == Len(SelectSeq(queue, LAMBDA m : m = notifier(c, Opened)))

Fired(c, ev) == \E i \in DOMAIN events[c] : events[c][i].ev = ev

\* the cancel calls on handle h that found it Live
LiveCancels(h) == {i \in DOMAIN calls[h] : calls[h][i].op = "cancel" /\ calls[h][i].live}
Cancelled(h) == LiveCancels(h) # {}
CancelCalled(h) == \E i \in DOMAIN calls[h] : calls[h][i].op = "cancel"

\* the event sequence open, message(m1), ..., message(mk), close
IsOpenMessagesClose(e) ==
    /\ Len(e) >= 2
    /\ e[1].ev = "open"
    /\ e[Len(e)].ev = "close"
    /\ \A i \in 2..(Len(e) - 1) : e[i].ev = "message"

\* notifier(Opened), decoder(m1), ..., decoder(mk), notifier(Closed)
ExpectedStream(c, e) ==
    [i \in 1..Len(e) |->
        IF i = 1 THEN notifier(c, Opened)
        ELSE IF i = Len(e) THEN notifier(c, Closed)
        ELSE decoder(c, e[i].data)]

\* ------------------------------------------------------------------ claims
\* C1: for the transport event sequence open, message(m1), ..., message(mk),
\* close on one connection, the messages enqueued for that connection are
\* exactly notifier(Opened), decoder(m1), ..., decoder(mk), notifier(Closed),
\* in that order, none dropped and none duplicated.
C1_StreamExact ==
    \A c \in Conns :
        IsOpenMessagesClose(events[c]) => QueueOf(c) = ExpectedStream(c, events[c])

C1_Witness ==
    \E c \in Conns :
        /\ IsOpenMessagesClose(events[c])
        /\ Len(events[c]) = 4
        /\ events[c][2].data # events[c][3].data
        /\ Len(QueueOf(c)) = 4

\* C2: cancel on a Live handle releases it and sends exactly one close
\* instruction; every later cancel on that handle is a fatal failure that sends
\* no close instruction and leaves the handle Released; a handle is released
\* at most once and never becomes Live again.
C2_CancelOnce ==
    \A h \in Handles :
        /\ Cardinality(LiveCancels(h)) <= 1
        /\ socket[h].closeCalls = Cardinality(LiveCancels(h))
        /\ (handle[h] = None) <=> Cancelled(h)
        /\ \A i \in LiveCancels(h) : calls[h][i].panic = ""
        /\ \A i \in LiveCancels(h) : \A j \in DOMAIN calls[h] :
              (j > i /\ calls[h][j].op = "cancel") =>
                  /\ ~ calls[h][j].live
                  /\ calls[h][j].panic = "tried to close websocket twice"

C2_Witness ==
    \E h \in Handles :
        /\ Len(calls[h]) = 2
        /\ calls[h][1].op = "cancel" /\ calls[h][1].live
        /\ calls[h][2].op = "cancel" /\ calls[h][2].panic # ""
        /\ socket[h].closeCalls = 1
        /\ handle[h] = None

\* C3: when a handle is cancelled while Live and the transport fires its close
\* event after a close instruction, exactly one notifier(Closed) message is
\* eventually enqueued for that connection, and never more than one, whatever
\* transport events came before the cancel.
C3_CancelLeadsToOneClosed ==
    /\ \A c \in 1..MaxOps : (c \in Conns /\ Cancelled(c)) ~> (ClosedCount(c) = 1)
    /\ [](\A c \in Conns : ClosedCount(c) <= 1)

C3_Witness ==
    \E c \in Conns :
        /\ \E i \in LiveCancels(c) : ~ calls[c][i].closed
        /\ Fired(c, "open")
        /\ Fired(c, "message")
        /\ events[c][Len(events[c])].ev = "close"
        /\ ClosedCount(c) = 1

\* the payloads of the send calls in the call sequence cs that found the
\* handle Live and whose input converts to a payload
PayloadsOf(cs) ==
    LET fw == SelectSeq(cs, LAMBDA e :
                  e.op = "send" /\ e.live /\ IntoStorable(e.data) # None)
    IN  [i \in 1..Len(fw) |-> fw[i].data.text]

\* C4: each send(p) on a Live handle, p converting to a payload, passes that
\* payload unchanged to the transport's send primitive exactly once and leaves
\* the handle Live; the payloads the transport receives are those of the send
\* calls, in call order.
C4_SendForwards ==
    \A h \in Handles :
        /\ socket[h].sent = PayloadsOf(calls[h])
        /\ \A i \in DOMAIN calls[h] :
              (calls[h][i].op = "send" /\ calls[h][i].live) => calls[h][i].panic = ""
        /\ ~ CancelCalled(h) => handle[h] = Some(h)

C4_Witness ==
    \E h \in Handles :
        /\ Len(calls[h]) = 2
        /\ calls[h][1].op = "send" /\ calls[h][2].op = "send"
        /\ Len(socket[h].sent) = 2
        /\ socket[h].sent[1] # socket[h].sent[2]
        /\ handle[h] # None

\* C5: send on a Released handle is a fatal failure for every input, also one
\* that converts to no payload; nothing is forwarded to the transport and the
\* call is never dropped in silence.
C5_SendReleasedFatal ==
    \A h \in Handles : \A j \in LiveCancels(h) :
        /\ socket[h].sent = PayloadsOf(SubSeq(calls[h], 1, j - 1))
        /\ \A i \in DOMAIN calls[h] :
              (i > j /\ calls[h][i].op = "send") =>
                  /\ ~ calls[h][i].live
                  /\ calls[h][i].panic = "can't send data to the closed websocket connection"

C5_Witness ==
    \E h \in Handles :
        /\ Len(calls[h]) = 3
        /\ calls[h][1].op = "send" /\ calls[h][1].data.kind = "Text"
        /\ calls[h][2].op = "cancel" /\ calls[h][2].live
        /\ calls[h][3].op = "send" /\ calls[h][3].data.kind = "Nothing"
        /\ calls[h][3].panic # ""
        /\ Len(socket[h].sent) = 1

\* the events that put a message on the dispatcher, and the message of each
Produces(e) == e.ev \in {"open", "message", "close"} \/ e.code \in {Some(0), Some(1)}
MessageOf(c, e) ==
    IF e.ev = "message" THEN decoder(c, e.data)
    ELSE IF e.code = Some(1) THEN notifier(c, Opened)
    ELSE notifier(c, Closed)
StreamOf(c, es) ==
    LET ps == SelectSeq(es, Produces)
    IN  [i \in 1..Len(ps) |-> MessageOf(c, ps[i])]

UnknownCode(e) == e.ev = "status" /\ e.code \notin {Some(0), Some(1)}

\* C6: a status callback handed a code other than 1 (opened) and 0 (closed)
\* fails fatally at once: it enqueues no message and never takes the code for
\* Opened or Closed.
C6_UnknownCodeFatal ==
    \A c \in Conns :
        /\ \A i \in DOMAIN events[c] :
              UnknownCode(events[c][i]) <=>
                  events[c][i].panic = "unknown code of websocket notification"
        /\ QueueOf(c) = StreamOf(c, events[c])

C6_Witness ==
    \E c \in Conns : \E i \in DOMAIN events[c] :
        /\ i > 1
        /\ UnknownCode(events[c][i])
        /\ events[c][i].panic # ""
        /\ Len(QueueOf(c)) = Len(events[c]) - 1

\* C7 as stated: after the transport fires the close event, with no cancel
\* called, one notifier(Closed) is enqueued and the handle is Released.
C7_Original ==
    \A c \in Conns :
        (Fired(c, "close") /\ ~ CancelCalled(c)) =>
            (ClosedCount(c) = 1 /\ handle[c] = None)

\* C7, amended: after the transport fires the close event, with no cancel
\* called, one notifier(Closed) is enqueued and the handle is still Live: only
\* cancel releases a handle.
C7_CloseKeepsHandleLive ==
    \A c \in Conns :
        (Fired(c, "close") /\ ~ CancelCalled(c)) =>
            (ClosedCount(c) = 1 /\ handle[c] = Some(c))

C7_Witness ==
    \E c \in Conns :
        /\ Fired(c, "open")
        /\ Fired(c, "close")
        /\ ~ CancelCalled(c)
        /\ ClosedCount(c) = 1
        /\ handle[c] = Some(c)

C9_ConnectOpensOne ==
    /\ [][Len(handle') # Len(handle) =>
            /\ Len(handle') = Len(handle) + 1
            /\ Len(socket') = Len(socket) + 1
            /\ handle'[Len(handle')] = Some(Len(socket'))
            /\ socket'[Len(socket')].readyState = "CONNECTING"
            /\ socket'[Len(socket')].closeCalls = 0
            /\ queue' = queue
            /\ \A c \in Conns : socket'[c] = socket[c] /\ handle'[c] = handle[c]]_vars
    /\ [](Len(socket) = Len(handle))
    /\ [](\A c \in Conns :
            /\ events[c] = <<>> => QueueOf(c) = <<>>
            /\ (Len(events[c]) = 1 /\ Fired(c, "close")) =>
                   QueueOf(c) = <<notifier(c, Closed)>>)

C9_Witness ==
    /\ Len(socket) = 2
    /\ events[1] = <<>> /\ QueueOf(1) = <<>> /\ handle[1] = Some(1)
    /\ Len(events[2]) = 1 /\ Fired(2, "close")
    /\ QueueOf(2) = <<notifier(2, Closed)>>

\* C10: only cancel invokes the transport's close primitive: no open,
\* message, close or error handler and no drop of a Live handle sends a close
\* instruction, and a handle sends at most one in its whole life.
C10_OnlyCancelCloses ==
    /\ [][\A c \in Conns :
            socket'[c].closeCalls # socket[c].closeCalls =>
                /\ socket'[c].closeCalls = 1
                /\ handle[c] = Some(c) /\ handle'[c] = None
                /\ Len(calls'[c]) = Len(calls[c]) + 1
                /\ calls'[c][Len(calls'[c])].op = "cancel"
                /\ events' = events
                /\ dropped' = dropped]_vars
    /\ [](\A c \in Conns : socket[c].closeCalls <= 1)

C10_Witness ==
    \E c, d \in Conns :
        /\ c \in dropped /\ handle[c] = Some(c)
        /\ Fired(c, "open") /\ Fired(c, "close")
        /\ socket[c].closeCalls = 0
        /\ socket[d].closeCalls = 1
\* C11: the close handler releases the message callback, then calls the status
\* callback with the closed code (which enqueues notifier(Closed)), then
\* releases the status callback: when it has finished both callbacks are
\* released, and Closed was enqueued with the status callback still registered.
C11_CloseOrder ==
    \A c \in Conns :
        Fired(c, "close") =>
            /\ socket[c].log =
                  << [step |-> "callback.drop", callback |-> TRUE, notify_callback |-> TRUE],
                     [step |-> "notify_callback(0)", callback |-> FALSE, notify_callback |-> TRUE],
                     [step |-> "notify_callback.drop", callback |-> FALSE, notify_callback |-> TRUE] >>
            /\ ~ socket[c].callback
            /\ ~ socket[c].notify_callback
            /\ ClosedCount(c) = 1
            /\ events[c][Len(events[c])].panic = ""

C11_Witness ==
    \E c \in Conns :
        /\ Fired(c, "open") /\ Fired(c, "message") /\ Fired(c, "close")
        /\ Len(socket[c].log) = 3
        /\ ~ socket[c].callback /\ ~ socket[c].notify_callback
        /\ QueueOf(c)[Len(QueueOf(c))] = notifier(c, Closed)
\* the position of the first event ev of connection c (0 when there is none)
FirstAt(c, ev) ==
    IF Fired(c, ev)
    THEN CHOOSE i \in DOMAIN events[c] :
            /\ events[c][i].ev = ev
            /\ \A j \in 1..(i - 1) : events[c][j].ev # ev
    ELSE 0

\* how often the close handler released a callback that was still registered
CallbackReleases(c) ==
    Len(SelectSeq(socket[c].log, LAMBDA e : e.step = "callback.drop" /\ e.callback))
NotifyReleases(c) ==
    Len(SelectSeq(socket[c].log, LAMBDA e : e.step = "notify_callback.drop" /\ e.notify_callback))

\* C12: when the transport fires an error event and a close event for one
\* failure, in either order, at most one notifier(Closed) is enqueued for the
\* connection and each of the two callbacks is released at most once.
C12_ErrorAndCloseOnce ==
    \A c \in Conns :
        (Fired(c, "error") /\ Fired(c, "close")) =>
            /\ ClosedCount(c) <= 1
            /\ CallbackReleases(c) <= 1
            /\ NotifyReleases(c) <= 1

C12_Witness ==
    \E c, d \in Conns :
        /\ FirstAt(c, "error") > 0 /\ FirstAt(c, "error") < FirstAt(c, "close")
        /\ FirstAt(d, "close") > 0 /\ FirstAt(d, "close") < FirstAt(d, "error")
        /\ ClosedCount(c) = 1 /\ ClosedCount(d) = 1
        /\ CallbackReleases(c) = 1 /\ NotifyReleases(c) = 1
        /\ CallbackReleases(d) = 1 /\ NotifyReleases(d) = 1
\* the payloads of the message events in the event sequence es, in order
FramesOf(es) ==
    LET ms == SelectSeq(es, LAMBDA e : e.ev = "message")
    IN  [i \in 1..Len(ms) |-> ms[i].data]

\* C13: under the transport's ordering guarantee, in every reachable state the
\* messages enqueued for one connection are a prefix of: at most one
\* notifier(Opened), the decoded messages in arrival order, at most one
\* notifier(Closed); for every interleaving with send and cancel, also a
\* cancel before the open event.
C13_StreamShape ==
    \A c \in Conns :
        LET q == QueueOf(c)
            ds == SelectSeq(q, LAMBDA m : m.kind = "Data")
            fs == FramesOf(events[c])
        IN  /\ \A i \in DOMAIN q :
                  /\ q[i] = notifier(c, Opened) => i = 1
                  /\ q[i] = notifier(c, Closed) => i = Len(q)
                  /\ q[i].kind = "Status" => q[i] \in {notifier(c, Opened), notifier(c, Closed)}
            /\ ds = [i \in 1..Len(fs) |-> decoder(c, fs[i])]
            /\ (Len(q) > 0 /\ q[Len(q)] = notifier(c, Closed)) <=> Fired(c, "close")
            /\ (Len(q) > 0 /\ q[1] = notifier(c, Opened)) <=> Fired(c, "open")

C13_Witness ==
    \E c, d \in Conns :
        /\ Len(calls[c]) > 0 /\ calls[c][1].op = "cancel" /\ calls[c][1].live
        /\ ~ Fired(c, "open")
        /\ QueueOf(c) = <<notifier(c, Closed)>>
        /\ Len(QueueOf(d)) = 3
        /\ QueueOf(d)[2].kind = "Data"
\* the payloads of the send calls on handle h that found it Live and convert
\* to a payload, issued before (cl = FALSE) or after (cl = TRUE) the close event
SentWhile(h, cl) ==
    LET fw == SelectSeq(calls[h], LAMBDA e :
                  e.op = "send" /\ e.live /\ e.closed = cl /\ IntoStorable(e.data) # None)
    IN  [i \in 1..Len(fw) |-> fw[i].data.text]

\* C14 as stated: no payload reaches the transport's send primitive after the
\* connection is closed, by cancel or by a close event the transport fired.
C14_Original ==
    \A h \in Handles :
        /\ socket[h].sent = SentWhile(h, FALSE)
        /\ SentWhile(h, TRUE) = <<>>

\* C14, amended: no payload reaches the transport's send primitive after
\* cancel; a send issued after a close event the transport fired, on a handle
\* that was not cancelled, still passes its payload to the send primitive.
C14_OnlyCancelStopsSend ==
    \A h \in Handles :
        /\ Len(socket[h].sent) = Len(SentWhile(h, FALSE)) + Len(SentWhile(h, TRUE))
        /\ \A i \in DOMAIN calls[h] :
              calls[h][i].op = "send" =>
                  /\ calls[h][i].live <=> (\A j \in LiveCancels(h) : j > i)
                  /\ calls[h][i].live <=> (calls[h][i].panic = "")
        /\ (socket[h].readyState = "CLOSED" /\ ~ Cancelled(h)) => handle[h] = Some(h)

C14_Witness ==
    \E h \in Handles :
        /\ Fired(h, "open") /\ Fired(h, "close")
        /\ ~ CancelCalled(h)
        /\ Len(SentWhile(h, TRUE)) = 1
        /\ socket[h].sent = SentWhile(h, TRUE)
\* the sequence s without its i-th element
Without(s, i) == SubSeq(s, 1, i - 1) \o SubSeq(s, i + 1, Len(s))

\* C15: send(x) on a Live handle, x converting to no payload, transmits
\* nothing to the transport, is not a failure and leaves the handle Live.
C15_NoPayloadNoOp ==
    \A h \in Handles : \A i \in DOMAIN calls[h] :
        (calls[h][i].op = "send" /\ calls[h][i].live /\ IntoStorable(calls[h][i].data) = None) =>
            /\ calls[h][i].panic = ""
            /\ socket[h].sent = PayloadsOf(Without(calls[h], i))
            /\ "" \notin {socket[h].sent[k] : k \in DOMAIN socket[h].sent}
            /\ ~ CancelCalled(h) => handle[h] = Some(h)

C15_Witness ==
    \E h \in Handles :
        /\ Len(calls[h]) = 3
        /\ calls[h][1].op = "send" /\ calls[h][1].data.kind = "Text"
        /\ calls[h][2].op = "send" /\ calls[h][2].data.kind = "Nothing" /\ calls[h][2].live
        /\ calls[h][3].op = "send" /\ calls[h][3].data.kind = "Text"
        /\ Len(socket[h].sent) = 2
        /\ handle[h] = Some(h)
\* C16: cancel and send enqueue nothing on the dispatcher: the Closed that
\* follows a cancel appears only when the transport fires its close event,
\* not at the time of the cancel call.
C16_CallsEnqueueNothing ==
    /\ [][calls' # calls => queue' = queue]_vars
    /\ [][\A c \in Conns :
            ClosedCount(c)' # ClosedCount(c) =>
                /\ Len(events'[c]) = Len(events[c]) + 1
                /\ events'[c][Len(events'[c])].ev = "close"
                /\ calls' = calls]_vars
    /\ [](\A c \in Conns : (Cancelled(c) /\ ~ Fired(c, "close")) => ClosedCount(c) = 0)

C16_Witness ==
    \E c \in Conns :
        /\ Len(calls[c]) = 2
        /\ calls[c][1].op = "send" /\ calls[c][1].live
        /\ calls[c][2].op = "cancel" /\ calls[c][2].live
        /\ socket[c].readyState = "CLOSING"
        /\ QueueOf(c) = <<notifier(c, Opened)>>
\* C17: with several connections open on one service, the dispatcher's queue
\* order is the order in which the callbacks fired over all connections, each
\* message is made by the decoder or notifier of the connection whose event
\* fired, and cancelling one handle changes no other handle and brings no
\* Closed for another connection.
C17_ConnectionsIndependent ==
    /\ [][\A c \in Conns :
            events'[c] # events[c] =>
                /\ Len(events'[c]) = Len(events[c]) + 1
                /\ queue' = queue \o StreamOf(c, <<events'[c][Len(events'[c])]>>)
                /\ \A d \in Conns \ {c} : events'[d] = events[d]]_vars
    /\ [][\A h \in Handles :
            calls'[h] # calls[h] =>
                /\ queue' = queue
                /\ \A g \in Handles \ {h} :
                      handle'[g] = handle[g] /\ socket'[g] = socket[g]]_vars
    /\ [](\A i \in DOMAIN queue : queue[i].conn \in Conns)
    /\ [](\A c \in Conns : QueueOf(c) = StreamOf(c, events[c]))

C17_Witness ==
    /\ Len(socket) = 2
    /\ Cancelled(1)
    /\ handle[2] = Some(2)
    /\ socket[2].readyState = "OPEN"
    /\ socket[2].closeCalls = 0
    /\ Len(queue) = 3
    /\ queue[1] = notifier(2, Opened)
    /\ queue[2] = notifier(1, Closed)
    /\ queue[3].conn = 2 /\ queue[3].kind = "Data"
\* the events of connection c that fired after its first close event
AfterClose(c) ==
    IF Fired(c, "close")
    THEN SubSeq(events[c], FirstAt(c, "close") + 1, Len(events[c]))
    ELSE <<>>

====
